---- MODULE Spec2Model ----
(***************************************************************************)
(* Model of the @figmazing/event bridge (packages/event/src/index.ts).     *)
(*                                                                         *)
(* One JavaScript context (the plugin's main sandbox or its UI iframe)     *)
(* that has loaded the module: its registry eventHandlers, the id counter  *)
(* currentId, the flag isInitialized, the inbound listener slot, and the   *)
(* messages it posts.  The other context is the peer: it runs the same     *)
(* module on the opposite side of the host's message channel.              *)
(***************************************************************************)
EXTENDS Integers, Sequences, FiniteSets, TLC

\* ------------------------------------------------------------------ bounds
MaxId == 3          \* registrations made in one behaviour
MaxLive == 2        \* subscriptions held in the registry at one time
MaxDeliveries == 2  \* inbound messages delivered in one behaviour
MaxOrderId == 11    \* registrations made in one behaviour of SpecOrder
MaxOrderDeliveries == 1  \* inbound messages delivered in one behaviour of SpecOrder
MaxFacades == 2     \* createEventSystem() calls
MaxPosted == 1      \* emitted messages the host has not taken yet
MaxClicks == 3      \* button clicks in the state-sharing example

\* ------------------------------------------------------- JavaScript values
Undef == [t |-> "undefined"]
Null == [t |-> "null"]
Str(s) == [t |-> "string", s |-> s]
Num(n) == [t |-> "number", n |-> n]
Arr(items) == [t |-> "array", items |-> items]
Obj(fields) == [t |-> "object", fields |-> fields]

\* typeof v
TypeOf(v) == IF v.t \in {"null", "array", "object"} THEN "object" ELSE v.t

\* Array.isArray(v)
IsArray(v) == v.t = "array"

\* v.key throws a TypeError when v is undefined or null
ReadThrows(v) == v.t \in {"undefined", "null"}

\* v.key for every other v: the field of an object, undefined otherwise
GetProp(v, key) ==
    IF v.t = "object" /\ key \in DOMAIN v.fields THEN v.fields[key] ELSE Undef

\* args[i] of an array (0-based), undefined past its end
Item(args, i) == IF i < Len(args.items) THEN args.items[i + 1] ELSE Undef

\* --------------------------------------------------------- property keys
\* `${currentId}`: the decimal digits of the counter, most significant first
RECURSIVE ToKey(_)
ToKey(n) == IF n < 10 THEN <<n>> ELSE Append(ToKey(n \div 10), n % 10)

\* the array index a canonical numeric key denotes
RECURSIVE ToIndex(_)
ToIndex(key) ==
    IF Len(key) = 1 THEN key[1]
    ELSE 10 * ToIndex(SubSeq(key, 1, Len(key) - 1)) + key[Len(key)]

\* a <= b as strings of digits, compared character by character
LexLeq(a, b) ==
    \/ \E i \in 1 .. Len(a) :
          /\ i <= Len(b)
          /\ \A j \in 1 .. (i - 1) : a[j] = b[j]
          /\ a[i] < b[i]
    \/ /\ Len(a) <= Len(b)
       /\ \A j \in 1 .. Len(a) : a[j] = b[j]

\* the keys in the order of a sort by string comparison
RECURSIVE ForInKeysLexicographic(_)
ForInKeysLexicographic(keys) ==
    IF keys = {} THEN <<>>
    ELSE LET first == CHOOSE k \in keys : \A o \in keys : LexLeq(k, o)
         IN <<first>> \o ForInKeysLexicographic(keys \ {first})

\* the keys of an object in the order for-in visits them: every key of the
\* registry is an array index, and those come in ascending numeric order
RECURSIVE ForInKeys(_)
ForInKeys(keys) ==
    IF keys = {} THEN <<>>
    ELSE LET first == CHOOSE k \in keys :
                         \A o \in keys : ToIndex(k) <= ToIndex(o)
         IN <<first>> \o ForInKeys(keys \ {first})

\* ------------------------------------------------------------------ state
VARIABLES
    hasWindow,      \* typeof window !== 'undefined': TRUE in the UI iframe
    loaded,         \* the module body has been evaluated (line 274 reached)
    isInitialized,  \* let isInitialized
    listener,       \* the function assigned to figma.ui.onmessage / window.onmessage
    installs,       \* how many times a listener has been assigned
    eventHandlers,  \* const eventHandlers: key -> [name, handler]
    currentId,      \* let currentId
    facades,        \* how many facades createEventSystem() has returned
    hits,           \* key -> how often the caller's handler of that subscription ran
    regInfo,        \* key -> how the subscription was made: [via, name, seq]
    cancelled,      \* keys whose unsubscribe function has been called
    delivered,      \* how many inbound messages the host has delivered
    last,           \* what the most recent inbound listener call did
    posted,         \* messages handed to the host by emit, not yet taken by it
    peerLast,       \* what the peer's listener did with the most recent relayed message
    store           \* the state-sharing example: both copies of state.value and
                    \* the messages in flight between them

vars == <<hasWindow, loaded, isInitialized, listener, installs, eventHandlers,
          currentId, facades, hits, regInfo, cancelled, delivered, last,
          posted, peerLast, store>>

Names == {"ping", "pong"}
Payloads == {Undef, Num(1)}

\* the caller-supplied handlers, by what the function does when it is invoked:
\* return, throw, call its own unsubscribe function, or call the unsubscribe
\* function of the registration made right after its own (when there is one)
Kinds == {"record", "throw", "unsubSelf", "unsubNext"}
CallerHandlers == {[kind |-> k] : k \in Kinds}
Recorders == {[kind |-> "record"]}

\* handlers that change the registry while a pass is running: besides the
\* above, call the unsubscribe function of the registration made right before
\* their own, or call on() for their own event name
PassKinds == {"record", "unsubSelf", "unsubNext", "unsubPrev", "register"}
PassHandlers == {[kind |-> k] : k \in PassKinds}

\* ------------------------------------------------------------- registry
\* delete eventHandlers[id]
DeleteKey(reg, id) == [k \in (DOMAIN reg) \ {id} |-> reg[k]]

\* an unsubscribe function that leaves the entry in place
UnsubscribeKeeps(reg, id) == reg

\* an unsubscribe function in the manner of list.splice(list.indexOf(h), 1):
\* when its own entry is gone it takes the newest entry away instead
UnsubscribeSplice(reg, id) ==
    IF id \in DOMAIN reg \/ DOMAIN reg = {} THEN DeleteKey(reg, id)
    ELSE DeleteKey(reg, CHOOSE k \in DOMAIN reg :
                            \A o \in DOMAIN reg : ToIndex(o) <= ToIndex(k))

\* the function event(name).on returns, called: lines 103-105
UnsubscribeFn(reg, id) == DeleteKey(reg, id)

\* an on that takes the number of entries in the registry as the new id
OnOpLengthId(reg, cid, name, handler) ==
    [currentId |-> cid + 1,
     reg |-> (ToKey(Cardinality(DOMAIN reg)) :> [name |-> name, handler |-> handler])
                @@ reg,
     id |-> ToKey(Cardinality(DOMAIN reg))]

\* event(name).on(handler): lines 99-106
OnOp(reg, cid, name, handler) ==
    [currentId |-> cid + 1,
     reg |-> (ToKey(cid) :> [name |-> name, handler |-> handler]) @@ reg,
     id |-> ToKey(cid)]

\* the handler event(name).on stores for a plain registration
PlainHandler(h) == [h |-> h, once |-> FALSE, done |-> FALSE]

\* the closure event(name).once passes to this.on, with its variable done
OnceWrapper(h) == [h |-> h, once |-> TRUE, done |-> FALSE]

\* ------------------------------------------------------------- dispatch
VisitEvent(id) == [id |-> id, op |-> "visit", payload |-> Undef]
CallEvent(id, payload) == [id |-> id, op |-> "call", payload |-> payload]
UnsubEvent(id) == [id |-> id, op |-> "unsub", payload |-> Undef]
RegEvent(id) == [id |-> id, op |-> "reg", payload |-> Undef]

\* the caller's handler of subscription id runs with payload
RunCaller(st, id, h, payload) ==
    LET st1 == [st EXCEPT !.trace = Append(@, CallEvent(id, payload)),
                          !.hits[id] = @ + 1]
    IN  CASE h.kind = "record" -> st1
          [] h.kind = "throw" -> [st1 EXCEPT !.threw = TRUE]
          [] h.kind = "unsubSelf" ->
                [st1 EXCEPT !.reg = UnsubscribeFn(@, id),
                            !.cancelled = @ \cup {id},
                            !.trace = Append(@, UnsubEvent(id))]
          [] h.kind = "unsubNext" ->
                LET next == ToKey(ToIndex(id) + 1)
                IN  IF next \in DOMAIN st1.hits
                      THEN [st1 EXCEPT !.reg = UnsubscribeFn(@, next),
                                       !.cancelled = @ \cup {next},
                                       !.trace = Append(@, UnsubEvent(next))]
                      ELSE st1
          [] h.kind = "unsubPrev" ->
                LET prev == ToKey(ToIndex(id) - 1)
                IN  IF ToIndex(id) > 0
                      THEN [st1 EXCEPT !.reg = UnsubscribeFn(@, prev),
                                       !.cancelled = @ \cup {prev},
                                       !.trace = Append(@, UnsubEvent(prev))]
                      ELSE st1
          [] h.kind = "register" ->
                LET r == OnOp(st1.reg, st1.currentId, st1.reg[id].name,
                              PlainHandler([kind |-> "record"]))
                IN  [st1 EXCEPT !.reg = r.reg,
                                !.currentId = r.currentId,
                                !.hits = (r.id :> 0) @@ @,
                                !.regInfo = (r.id :> [name |-> st1.reg[id].name,
                                                      via |-> 0,
                                                      seq |-> Cardinality(DOMAIN @)])
                                              @@ @,
                                !.trace = Append(@, RegEvent(r.id))]

\* a once closure that never looks at done
OnceCallAgain(st, id, H, payload) == RunCaller(st, id, H.h, payload)

\* a once closure that sets done after the handler has returned, so that a
\* handler that throws leaves it unset
OnceCallDoneAfter(st, id, H, payload) ==
    IF H.done THEN st
    ELSE LET st1 == RunCaller(st, id, H.h, payload)
         IN  IF st1.threw \/ id \notin DOMAIN st1.reg THEN st1
             ELSE [st1 EXCEPT !.reg[id].handler.done = TRUE]

\* a once closure that takes its own entry out of the registry when it fires
OnceCallSelfRemoving(st, id, H, payload) ==
    IF H.done THEN st
    ELSE LET st1 == RunCaller([st EXCEPT !.reg[id].handler.done = TRUE],
                              id, H.h, payload)
         IN  [st1 EXCEPT !.reg = DeleteKey(@, id)]

\* the once closure, lines 120-126: return when done, else set done and call
OnceCall(st, id, H, payload) ==
    IF H.done THEN st
    ELSE RunCaller([st EXCEPT !.reg[id].handler.done = TRUE], id, H.h, payload)

\* a loop body that counts an entry as invoked only when the caller's
\* handler ran, so that a once wrapper that merely returns does not count
CallHandlerCountingRuns(st, id, payload) ==
    LET H == st.reg[id].handler
        st0 == [st EXCEPT !.trace = Append(@, VisitEvent(id))]
        st1 == IF H.once THEN OnceCall(st0, id, H, payload)
               ELSE RunCaller(st0, id, H.h, payload)
    IN  IF st1.threw \/ st1.hits[id] = st.hits[id] THEN st1
        ELSE [st1 EXCEPT !.invoked = TRUE]

\* eventHandlers[id].handler(payload); invoked = true  (lines 217-218)
CallHandler(st, id, payload) ==
    LET H == st.reg[id].handler
        st0 == [st EXCEPT !.trace = Append(@, VisitEvent(id))]
        st1 == IF H.once THEN OnceCall(st0, id, H, payload)
               ELSE RunCaller(st0, id, H.h, payload)
    IN  IF st1.threw THEN st1 ELSE [st1 EXCEPT !.invoked = TRUE]

\* a loop over positions of a list that shrinks under it: when the entry
\* just called has removed itself, the entry after it is passed over
RECURSIVE ForInShifting(_, _, _, _)
ForInShifting(keys, name, payload, st) ==
    IF keys = <<>> \/ st.threw THEN st
    ELSE LET id == Head(keys)
         IN  IF id \notin DOMAIN st.reg \/ st.reg[id].name # name
                THEN ForInShifting(Tail(keys), name, payload, st)
             ELSE LET st1 == CallHandler(st, id, payload)
                      rest == IF id \notin DOMAIN st1.reg /\ Len(keys) > 1
                                THEN Tail(Tail(keys)) ELSE Tail(keys)
                  IN  ForInShifting(rest, name, payload, st1)

\* a loop that catches what a handler throws and goes on
RECURSIVE ForInCatching(_, _, _, _)
ForInCatching(keys, name, payload, st) ==
    IF keys = <<>> THEN st
    ELSE LET id == Head(keys)
         IN  IF id \notin DOMAIN st.reg \/ st.reg[id].name # name
                THEN ForInCatching(Tail(keys), name, payload, st)
             ELSE ForInCatching(Tail(keys), name, payload,
                                [CallHandler(st, id, payload) EXCEPT !.threw = FALSE])

\* a loop that calls every entry without comparing its name
RECURSIVE ForInAnyName(_, _, _, _)
ForInAnyName(keys, name, payload, st) ==
    IF keys = <<>> \/ st.threw THEN st
    ELSE LET id == Head(keys)
         IN  IF id \notin DOMAIN st.reg
                THEN ForInAnyName(Tail(keys), name, payload, st)
             ELSE ForInAnyName(Tail(keys), name, payload, CallHandler(st, id, payload))

\* a loop over Object.keys(eventHandlers) taken before the pass: reading
\* .name of an entry deleted since then throws
RECURSIVE ForInKeysThrowing(_, _, _, _)
ForInKeysThrowing(keys, name, payload, st) ==
    IF keys = <<>> \/ st.threw THEN st
    ELSE LET id == Head(keys)
         IN  IF id \notin DOMAIN st.reg
                THEN [st EXCEPT !.threw = TRUE]
             ELSE IF st.reg[id].name = name
                THEN ForInKeysThrowing(Tail(keys), name, payload,
                                       CallHandler(st, id, payload))
             ELSE ForInKeysThrowing(Tail(keys), name, payload, st)

\* the body of for (const id in eventHandlers), lines 215-220: the keys are
\* those the object had when the loop started; a key deleted before it is
\* reached is not visited; an exception leaves the loop
RECURSIVE ForIn(_, _, _, _)
ForIn(keys, name, payload, st) ==
    IF keys = <<>> \/ st.threw THEN st
    ELSE LET id == Head(keys)
         IN  IF id \notin DOMAIN st.reg
                THEN ForIn(Tail(keys), name, payload, st)
             ELSE IF st.reg[id].name = name
                THEN ForIn(Tail(keys), name, payload, CallHandler(st, id, payload))
             ELSE ForIn(Tail(keys), name, payload, st)

\* a dispatcher that stays silent when nothing matched
WarnNever(st, name) == st

\* console.warn(`No event handler with name \`${name}\``), lines 221-223
WarnIfNone(st, name) ==
    IF ~st.threw /\ st.invoked = FALSE
        THEN [st EXCEPT !.warnings = Append(@, name)]
        ELSE st

\* invokeEventHandler(name, payload): lines 213-224
InvokeEventHandler(reg, h, c, cid, info, name, payload) ==
    LET st0 == [currentId |-> cid, hits |-> h, regInfo |-> info, cancelled |-> c,
                reg |-> reg, trace |-> <<>>,
                threw |-> FALSE, invoked |-> FALSE, warnings |-> <<>>]
    IN  WarnIfNone(ForIn(ForInKeys(DOMAIN reg), name, payload, st0), name)

\* -------------------------------------------------------- the listeners
Discard == [name |-> "", payload |-> Undef, outcome |-> "discard"]
TypeError == [name |-> "", payload |-> Undef, outcome |-> "TypeError"]
Dispatch(name, payload) == [name |-> name, payload |-> payload, outcome |-> "dispatch"]

\* args.length > 1 ? args[1] : undefined
PayloadOf(args) == IF Len(args.items) > 1 THEN Item(args, 1) ELSE Undef

\* figma.ui.onmessage = function (args), lines 235-247
MainListener(args) ==
    IF ~IsArray(args) THEN Discard
    ELSE IF Len(args.items) < 1 \/ TypeOf(Item(args, 0)) # "string" THEN Discard
    ELSE Dispatch(Item(args, 0).s, PayloadOf(args))

\* window.onmessage = function (event), lines 250-267; data is event.data
UIListener(data) ==
    IF ReadThrows(data) THEN TypeError
    ELSE IF TypeOf(GetProp(data, "pluginMessage")) = "undefined" THEN Discard
    ELSE LET args == GetProp(data, "pluginMessage")
         IN  IF ~IsArray(args) \/ Len(args.items) < 1 THEN Discard
             ELSE IF TypeOf(Item(args, 0)) # "string" THEN Discard
             ELSE Dispatch(Item(args, 0).s, PayloadOf(args))

\* listeners that accept nothing but an array of exactly two elements
RunListenerStrictPair(slot, raw) ==
    LET env == IF slot = "figma.ui.onmessage" THEN raw
               ELSE IF ReadThrows(raw) THEN Undef
               ELSE GetProp(raw, "pluginMessage")
    IN  IF IsArray(env) /\ Len(env.items) # 2 THEN Discard
        ELSE IF slot = "figma.ui.onmessage" THEN MainListener(raw)
        ELSE UIListener(raw)

\* the function the slot holds, applied to what the host passes it
RunListener(slot, raw) ==
    IF slot = "figma.ui.onmessage" THEN MainListener(raw) ELSE UIListener(raw)

\* an initEventHandlers without its early return
InitEventHandlersUnguarded(init, win, slot, n) ==
    [isInitialized |-> TRUE,
     listener |-> IF win THEN "window.onmessage" ELSE "figma.ui.onmessage",
     installs |-> n + 1]

\* initEventHandlers(): lines 227-271
InitEventHandlers(init, win, slot, n) ==
    IF init THEN [isInitialized |-> init, listener |-> slot, installs |-> n]
    ELSE [isInitialized |-> TRUE,
          listener |-> IF win THEN "window.onmessage" ELSE "figma.ui.onmessage",
          installs |-> n + 1]

\* ------------------------------------------------------------ transport
Envelope(name, payload) == Arr(<<Str(name), payload>>)

\* an emit that posts the bare envelope on both sides
EmitMessageUnwrapped(win, name, payload) ==
    [api |-> IF win THEN "window.parent.postMessage" ELSE "figma.ui.postMessage",
     message |-> Envelope(name, payload),
     targetOrigin |-> IF win THEN "*" ELSE "none"]

\* an emit that wraps the envelope in pluginMessage on both sides
EmitMessageWrapped(win, name, payload) ==
    [api |-> IF win THEN "window.parent.postMessage" ELSE "figma.ui.postMessage",
     message |-> Obj([pluginMessage |-> Envelope(name, payload)]),
     targetOrigin |-> IF win THEN "*" ELSE "none"]

\* what event(name).emit(payload) hands to the host: lines 139-152
EmitMessage(win, name, payload) ==
    IF ~win
        THEN [api |-> "figma.ui.postMessage",
              message |-> Envelope(name, payload),
              targetOrigin |-> "none"]
        ELSE [api |-> "window.parent.postMessage",
              message |-> Obj([pluginMessage |-> Envelope(name, payload)]),
              targetOrigin |-> "*"]

\* the host's two primitives: figma.ui.postMessage(m) raises a message event
\* in the iframe whose data is {pluginMessage: m}; a window message posted to
\* the parent reaches figma.ui.onmessage as its pluginMessage field
HostRelay(call) ==
    IF call.api = "figma.ui.postMessage"
        THEN Obj([pluginMessage |-> call.message])
        ELSE GetProp(call.message, "pluginMessage")

\* the listener the same module installs in the other context
PeerListener(win, raw) ==
    RunListener(InitEventHandlers(FALSE, ~win, "none", 0).listener, raw)

\* what the peer's emit(name, payload) has become when it reaches this context
FromPeer(win, name, payload) == HostRelay(EmitMessage(~win, name, payload))

\* pluginMessage values of every shape the listeners tell apart
ArgsShapes ==
    {Undef, Null, Str("ping"), Num(1), Obj([other |-> Num(1)]),
     Arr(<<>>), Arr(<<Num(1)>>), Arr(<<Num(1), Num(1)>>), Arr(<<Null, Undef>>)}
        \cup {Arr(<<Str(n)>>) : n \in Names}
        \cup {Envelope(n, p) : n \in Names, p \in Payloads}
        \cup {Arr(<<Str(n), Num(1), Num(1)>>) : n \in Names}

\* what the host can pass to the installed listener: on the main side the
\* message itself, in the iframe the data of a window message event
InboundRaw(slot) ==
    IF slot = "figma.ui.onmessage" THEN ArgsShapes
    ELSE {Undef, Null, Str("ping"), Num(1), Obj([other |-> Num(1)])}
            \cup {Obj([pluginMessage |-> a]) : a \in ArgsShapes}

\* payloads of every kind of value a message can carry
WirePayloads ==
    {Undef, Null, Num(1), Str("a"), Arr(<<Str("1"), Str("2")>>),
     Obj([ids |-> Arr(<<Str("1"), Str("2")>>)])}

NoSent == [name |-> "", payload |-> Undef]
NoDelivery ==
    [kind |-> "none", name |-> "", payload |-> Undef, trace |-> <<>>,
     threw |-> "none", warnings |-> <<>>, outcome |-> "none",
     raw |-> Undef, origin |-> "none", sent |-> NoSent]
NoPeerDelivery ==
    [kind |-> "none", name |-> "", payload |-> Undef,
     outcome |-> "none", api |-> "none", sent |-> NoSent]

\* ---------------------------------------------------------------- actions
Init ==
    /\ hasWindow \in BOOLEAN
    /\ loaded = FALSE
    /\ isInitialized = FALSE
    /\ listener = "none"
    /\ installs = 0
    /\ eventHandlers = <<>>
    /\ currentId = 0
    /\ facades = 0
    /\ hits = <<>>
    /\ regInfo = <<>>
    /\ cancelled = {}
    /\ delivered = 0
    /\ last = NoDelivery
    /\ posted = <<>>
    /\ peerLast = NoPeerDelivery
    /\ store = [main |-> 0, ui |-> 0, toMain |-> <<>>, toUI |-> <<>>, clicks |-> 0]

\* a module body without the call at line 274: the listener is left to the
\* first createEventSystem()
ModuleLoadLazy ==
    /\ ~loaded
    /\ loaded' = TRUE
    /\ UNCHANGED <<hasWindow, isInitialized, listener, installs, eventHandlers,
                   currentId, facades, hits, regInfo, cancelled, delivered, last,
                   posted, peerLast, store>>

\* the module body runs to its end: initEventHandlers() at line 274
ModuleLoad ==
    /\ ~loaded
    /\ LET r == InitEventHandlers(isInitialized, hasWindow, listener, installs)
       IN  /\ isInitialized' = r.isInitialized
           /\ listener' = r.listener
           /\ installs' = r.installs
    /\ loaded' = TRUE
    /\ UNCHANGED <<hasWindow, eventHandlers, currentId, facades, hits, regInfo,
                   cancelled, delivered, last, posted, peerLast, store>>

\* a createEventSystem that gives every facade a registry of its own
CreateEventSystemOwnRegistry ==
    /\ loaded
    /\ facades < MaxFacades
    /\ facades' = facades + 1
    /\ eventHandlers' = <<>>
    /\ UNCHANGED <<hasWindow, loaded, isInitialized, listener, installs, currentId,
                   hits, regInfo, cancelled, delivered, last, posted, peerLast, store>>

\* createEventSystem(): lines 198-210
CreateEventSystem ==
    /\ loaded
    /\ facades < MaxFacades
    /\ LET r == InitEventHandlers(isInitialized, hasWindow, listener, installs)
       IN  /\ isInitialized' = r.isInitialized
           /\ listener' = r.listener
           /\ installs' = r.installs
    /\ facades' = facades + 1
    /\ UNCHANGED <<hasWindow, loaded, eventHandlers, currentId, hits, regInfo,
                   cancelled, delivered, last, posted, peerLast, store>>

\* a registration that replays a buffered message: when the latest inbound
\* message of that name found no handler, the new handler is called with it
RegisterReplaying(via, name, handler, maxId) ==
    /\ loaded
    /\ currentId < maxId
    /\ Cardinality(DOMAIN eventHandlers) < MaxLive
    /\ LET r == OnOp(eventHandlers, currentId, name, handler)
       IN  /\ eventHandlers' = r.reg
           /\ currentId' = r.currentId
           /\ hits' = (r.id :> IF last.warnings = <<name>> THEN 1 ELSE 0) @@ hits
           /\ regInfo' = (r.id :> [name |-> name, via |-> via,
                                    seq |-> Cardinality(DOMAIN regInfo)])
                             @@ regInfo
    /\ UNCHANGED <<hasWindow, loaded, isInitialized, listener, installs, facades,
                   cancelled, delivered, last, posted, peerLast, store>>

\* a registration through facade via (0: the bare functions), storing handler
Register(via, name, handler, maxId) ==
    /\ loaded
    /\ currentId < maxId
    /\ Cardinality(DOMAIN eventHandlers) < MaxLive
    /\ LET r == OnOp(eventHandlers, currentId, name, handler)
       IN  /\ eventHandlers' = r.reg
           /\ currentId' = r.currentId
           /\ hits' = (r.id :> 0) @@ hits
           /\ regInfo' = (r.id :> [name |-> name, via |-> via,
                                    seq |-> Cardinality(DOMAIN regInfo)])
                             @@ regInfo
    /\ UNCHANGED <<hasWindow, loaded, isInitialized, listener, installs, facades,
                   cancelled, delivered, last, posted, peerLast, store>>

\* on(name, h) / facade(name).on(h): lines 292-294, 205, 99-106
On(vias, names, hs, maxId) ==
    \E via \in vias, name \in names, h \in hs :
        Register(via, name, PlainHandler(h), maxId)

\* once(name, h) / facade(name).once(h): lines 309-311, 206, 118-127
Once(vias, names, hs, maxId) ==
    \E via \in vias, name \in names, h \in hs :
        Register(via, name, OnceWrapper(h), maxId)

\* the caller invokes the unsubscribe function a registration returned
Unsubscribe ==
    /\ loaded
    /\ \E i \in 0 .. (currentId - 1) :
          /\ eventHandlers' = UnsubscribeFn(eventHandlers, ToKey(i))
          /\ cancelled' = cancelled \cup {ToKey(i)}
    /\ UNCHANGED <<hasWindow, loaded, isInitialized, listener, installs, currentId,
                   facades, hits, regInfo, delivered, last, posted, peerLast, store>>

\* the host calls the installed listener with raw
Deliver(origin, sent, raw, maxDeliveries) ==
    /\ listener # "none"
    /\ delivered < maxDeliveries
    /\ delivered' = delivered + 1
    /\ LET d == RunListener(listener, raw)
           r == InvokeEventHandler(eventHandlers, hits, cancelled, currentId,
                                   regInfo, d.name, d.payload)
           base == [kind |-> "delivery", name |-> d.name, payload |-> d.payload,
                    trace |-> <<>>, threw |-> "none", warnings |-> <<>>,
                    outcome |-> d.outcome, raw |-> raw, origin |-> origin,
                    sent |-> sent]
       IN  IF d.outcome = "dispatch"
             THEN /\ eventHandlers' = r.reg
                  /\ hits' = r.hits
                  /\ cancelled' = r.cancelled
                  /\ currentId' = r.currentId
                  /\ regInfo' = r.regInfo
                  /\ last' = [base EXCEPT !.trace = r.trace,
                                          !.warnings = r.warnings,
                                          !.threw = IF r.threw THEN "handler" ELSE "none"]
             ELSE /\ last' = [base EXCEPT !.threw =
                                 IF d.outcome = "TypeError" THEN "TypeError" ELSE "none"]
                  /\ UNCHANGED <<eventHandlers, hits, cancelled, currentId, regInfo>>
    /\ UNCHANGED <<hasWindow, loaded, isInitialized, listener, installs,
                   facades, posted, peerLast, store>>

\* a message of any shape arrives on the channel the listener is attached to
DeliverAny ==
    \E raw \in InboundRaw(listener) : Deliver("host", NoSent, raw, MaxDeliveries)

\* a message the peer emitted arrives
DeliverFromPeer(names, payloads, maxDeliveries) ==
    \E name \in names, payload \in payloads :
        Deliver("peer", [name |-> name, payload |-> payload],
                FromPeer(hasWindow, name, payload), maxDeliveries)

\* an emit that also calls the handlers of its own context, as the emit of
\* an in-process event emitter does
EmitLoopback(vias, names, payloads) ==
    /\ loaded
    /\ Len(posted) < MaxPosted
    /\ \E via \in vias, name \in names, payload \in payloads :
          /\ posted' = Append(posted, [via |-> via,
                                       call |-> EmitMessage(hasWindow, name, payload),
                                       sent |-> [name |-> name, payload |-> payload]])
          /\ hits' = [k \in DOMAIN hits |->
                        IF k \in DOMAIN eventHandlers /\ eventHandlers[k].name = name
                          THEN hits[k] + 1 ELSE hits[k]]
    /\ UNCHANGED <<hasWindow, loaded, isInitialized, listener, installs,
                   eventHandlers, currentId, facades, regInfo, cancelled,
                   delivered, last, peerLast, store>>

\* emit(name, payload) / facade(name).emit(payload): lines 323-325, 207, 139-152
Emit(vias, names, payloads) ==
    /\ loaded
    /\ Len(posted) < MaxPosted
    /\ \E via \in vias, name \in names, payload \in payloads :
          posted' = Append(posted, [via |-> via,
                                    call |-> EmitMessage(hasWindow, name, payload),
                                    sent |-> [name |-> name, payload |-> payload]])
    /\ UNCHANGED <<hasWindow, loaded, isInitialized, listener, installs,
                   eventHandlers, currentId, facades, hits, regInfo, cancelled,
                   delivered, last, peerLast, store>>

\* the host carries the oldest posted message to the peer, whose listener runs
HostRelayStep ==
    /\ posted # <<>>
    /\ LET m == Head(posted)
           d == PeerListener(hasWindow, HostRelay(m.call))
       IN  peerLast' = [kind |-> "delivery", name |-> d.name,
                        payload |-> d.payload, outcome |-> d.outcome,
                        api |-> m.call.api, sent |-> m.sent]
    /\ posted' = Tail(posted)
    /\ UNCHANGED <<hasWindow, loaded, isInitialized, listener, installs,
                   eventHandlers, currentId, facades, hits, regInfo, cancelled,
                   delivered, last, store>>

\* the host loses the oldest posted message (the peer is not ready)
HostDrop ==
    /\ posted # <<>>
    /\ posted' = Tail(posted)
    /\ UNCHANGED <<hasWindow, loaded, isInitialized, listener, installs,
                   eventHandlers, currentId, facades, hits, regInfo, cancelled,
                   delivered, last, peerLast, store>>

\* a script of the main context defines the global window (a polyfill for
\* code written for browsers): typeof window is no longer 'undefined'
DefineWindow ==
    /\ ~hasWindow
    /\ hasWindow' = TRUE
    /\ UNCHANGED <<loaded, isInitialized, listener, installs, eventHandlers,
                   currentId, facades, hits, regInfo, cancelled, delivered, last,
                   posted, peerLast, store>>

\* ------------------------------------------ the state-sharing example
bridgeVars == <<hasWindow, loaded, isInitialized, listener, installs,
                eventHandlers, currentId, facades, hits, regInfo, cancelled,
                delivered, last, posted, peerLast>>

\* the messages of the example: {key: "value", value} under FIGMAZING::update,
\* and the two commands the UI sends to the main context
UpdateMessage(value) == [name |-> "FIGMAZING::update", value |-> value]
CommandMessage(delta) ==
    [name |-> IF delta = 1 THEN "INCREASE_VALUE_IN_MAIN" ELSE "DECREASE_VALUE_IN_MAIN",
     value |-> 0]

\* a click on "Increase/Decrease Value In UI": update("value", prev => prev + delta)
\* of StoreProvider sets the UI copy and emits the new value
UIUpdate(delta) ==
    /\ store.clicks < MaxClicks
    /\ LET newValue == store.ui + delta
       IN  store' = [store EXCEPT !.ui = newValue,
                                  !.toMain = Append(@, UpdateMessage(newValue)),
                                  !.clicks = @ + 1]
    /\ UNCHANGED bridgeVars

\* a click on "Increase/Decrease State In Main": the UI emits the command
UIEmitCommand(delta) ==
    /\ store.clicks < MaxClicks
    /\ store' = [store EXCEPT !.toMain = Append(@, CommandMessage(delta)),
                              !.clicks = @ + 1]
    /\ UNCHANGED bridgeVars

\* the main context takes the oldest message sent to it: a command runs
\* update("value", value => value + delta), which sets the main copy and
\* emits the new value; an update message overwrites the main copy
MainReceive ==
    /\ store.toMain # <<>>
    /\ LET m == Head(store.toMain)
       IN  IF m.name = "FIGMAZING::update"
             THEN store' = [store EXCEPT !.main = m.value, !.toMain = Tail(@)]
             ELSE LET newValue == store.main +
                                    (IF m.name = "INCREASE_VALUE_IN_MAIN" THEN 1 ELSE -1)
                  IN  store' = [store EXCEPT !.main = newValue,
                                             !.toMain = Tail(@),
                                             !.toUI = Append(@, UpdateMessage(newValue))]
    /\ UNCHANGED bridgeVars

\* the UI takes the oldest message sent to it: the handler of
\* FIGMAZING::update overwrites the UI copy
UIReceive ==
    /\ store.toUI # <<>>
    /\ store' = [store EXCEPT !.ui = Head(store.toUI).value, !.toUI = Tail(@)]
    /\ UNCHANGED bridgeVars

\* ------------------------------------------------------------------- Spec
\* registration and dispatch, with handlers of every kind
Next ==
    \/ ModuleLoad
    \/ On({0}, Names, CallerHandlers, MaxId)
    \/ Once({0}, Names, CallerHandlers, MaxId)
    \/ Unsubscribe
    \/ DeliverFromPeer(Names, Payloads, MaxDeliveries)

Spec == Init /\ [][Next]_vars

\* the listener and its installation, with inbound messages of every shape
NextListener ==
    \/ ModuleLoad
    \/ CreateEventSystem
    \/ On({0}, Names, Recorders, MaxId)
    \/ Unsubscribe
    \/ DeliverAny

SpecListener == Init /\ [][NextListener]_vars

\* many registrations, so that keys of one and of two digits meet
NextOrder ==
    \/ ModuleLoad
    \/ On({0}, {"ping"}, Recorders, MaxOrderId)
    \/ Unsubscribe
    \/ DeliverFromPeer({"ping"}, {Num(1)}, MaxOrderDeliveries)

SpecOrder == Init /\ [][NextOrder]_vars

\* both directions of the channel, with facades
NextTransport ==
    \/ ModuleLoad
    \/ CreateEventSystem
    \/ On(0 .. facades, Names, Recorders, MaxLive - 1)
    \/ Emit(0 .. facades, Names, WirePayloads)
    \/ HostRelayStep
    \/ HostDrop
    \/ DeliverFromPeer(Names, Payloads, MaxDeliveries)

SpecTransport == Init /\ [][NextTransport]_vars

\* handlers that register and unsubscribe while a pass is running
NextPass ==
    \/ ModuleLoad
    \/ On({0}, Names, PassHandlers, MaxId)
    \/ Once({0}, Names, Recorders, MaxId)
    \/ Unsubscribe
    \/ DeliverFromPeer(Names, {Num(1)}, MaxDeliveries)

SpecPass == Init /\ [][NextPass]_vars

\* emits in a context whose global window appears after the module loaded
NextSide ==
    \/ ModuleLoad
    \/ CreateEventSystem
    \/ DefineWindow
    \/ On(0 .. facades, Names, Recorders, MaxLive - 1)
    \/ Emit(0 .. facades, Names, WirePayloads)
    \/ HostDrop

SpecSide == Init /\ [][NextSide]_vars

\* every operation of the module on the subscriptions of one event name
NextLife ==
    \/ ModuleLoad
    \/ CreateEventSystem
    \/ On({0}, {"ping"}, CallerHandlers, MaxId)
    \/ Once({0}, {"ping"}, CallerHandlers, MaxId)
    \/ Unsubscribe
    \/ Emit({0}, {"ping"}, {Num(1)})
    \/ HostDrop
    \/ DeliverFromPeer({"ping"}, {Num(1)}, MaxDeliveries)

SpecLife == Init /\ [][NextLife]_vars

\* the state-sharing example: clicks in the UI and the two message queues
NextStore ==
    \/ \E delta \in {1, -1} : UIUpdate(delta)
    \/ \E delta \in {1, -1} : UIEmitCommand(delta)
    \/ MainReceive
    \/ UIReceive

SpecStore == Init /\ [][NextStore]_vars

\* ----------------------------------------------------------------- claims
\* positions in a pass's trace where the stored handler of k was invoked
Visits(tr, k) == {i \in 1 .. Len(tr) : tr[i] = VisitEvent(k)}

\* positions in a pass's trace where the caller's handler of k ran
Calls(tr, k) == {i \in 1 .. Len(tr) : tr[i].op = "call" /\ tr[i].id = k}

\* this step is the host delivering an inbound message
DeliveryStep == delivered' = delivered + 1

\* C1: once the unsubscribe function of a subscription has been called, no
\* later dispatch invokes its handler: between passes its count of
\* invocations no longer changes, and inside a pass no call of a handler
\* follows the call of its unsubscribe function.
C1_UnsubscribedNeverInvoked ==
    [][ /\ \A k \in cancelled : hits'[k] = hits[k]
        /\ \A i, j \in 1 .. Len(last'.trace) :
              (i < j /\ last'.trace[i].op = "unsub" /\ last'.trace[j].op # "unsub")
                  => last'.trace[j].id # last'.trace[i].id ]_vars

\* C1 witness: a handler ran once, was unsubscribed, and a second message
\* for its name was dispatched without reaching it.
C1_Witness ==
    \E k \in cancelled :
        /\ hits[k] = 1
        /\ delivered = 2
        /\ last.outcome = "dispatch"
        /\ last.name = regInfo[k].name
        /\ Visits(last.trace, k) = {}
        /\ last.threw = "none"

\* C2: the handler given to once runs at most once in total: the first
\* message that reaches the subscription runs it exactly once with that
\* message's payload, and no later message runs it again.
C2_OnceAtMostOnce ==
    [][ \A k \in DOMAIN eventHandlers :
          eventHandlers[k].handler.once =>
            /\ hits'[k] <= 1
            /\ hits[k] >= 1 => hits'[k] = hits[k]
            /\ (hits[k] = 0 /\ DeliveryStep /\ Visits(last'.trace, k) # {}) =>
                  /\ hits'[k] = 1
                  /\ Cardinality(Calls(last'.trace, k)) = 1
                  /\ \A i \in Calls(last'.trace, k) :
                        last'.trace[i].payload = last'.sent.payload ]_vars

\* C2 witness: a once subscription whose handler has run is reached by a
\* second message and its handler is not run.
C2_Witness ==
    \E k \in DOMAIN eventHandlers :
        /\ eventHandlers[k].handler.once
        /\ hits[k] = 1
        /\ delivered = 2
        /\ Visits(last.trace, k) # {}
        /\ Calls(last.trace, k) = {}

\* C3: the dispatch of a message whose name no registered subscription has
\* warns with that name, throws nothing, invokes no handler and leaves the
\* registry as it was.
C3_NoHandlerWarns ==
    [][ ( /\ DeliveryStep
          /\ last'.outcome = "dispatch"
          /\ \A k \in DOMAIN eventHandlers : eventHandlers[k].name # last'.name )
        => /\ last'.warnings = <<last'.name>>
           /\ last'.threw = "none"
           /\ last'.trace = <<>>
           /\ eventHandlers' = eventHandlers
           /\ hits' = hits ]_vars

\* C3 witness: a message was dispatched and warned about while the registry
\* held a subscription for the other name.
C3_Witness ==
    /\ last.outcome = "dispatch"
    /\ last.warnings = <<last.name>>
    /\ eventHandlers # <<>>
    /\ \A k \in DOMAIN eventHandlers : eventHandlers[k].name # last.name

\* keys whose unsubscribe function a handler called during the pass
UnsubscribedIn(tr) == {tr[i].id : i \in {x \in 1 .. Len(tr) : tr[x].op = "unsub"}}

\* C4: a dispatch calls the handlers registered for its name in the order
\* of their registration, whatever was registered or unsubscribed in
\* between and also when their keys have one and two digits.
C4_RegistrationOrder ==
    [][ (DeliveryStep /\ last'.outcome = "dispatch") =>
          \A k1, k2 \in DOMAIN eventHandlers :
              ( /\ eventHandlers[k1].name = last'.name
                /\ eventHandlers[k2].name = last'.name
                /\ regInfo[k1].seq < regInfo[k2].seq )
              => \E i \in Calls(last'.trace, k1), j \in Calls(last'.trace, k2) : i < j ]_vars

\* C4 witness: a pass called a handler with a one-digit key (2..9) and then
\* the handler with key "10".
C4_Witness ==
    \E i, j \in 1 .. Len(last.trace) :
        /\ i < j
        /\ last.trace[i].op = "call"
        /\ last.trace[j].op = "call"
        /\ Len(last.trace[i].id) = 1
        /\ last.trace[i].id[1] >= 2
        /\ last.trace[j].id = <<1, 0>>

\* C5: when a handler calls its own unsubscribe function while it runs, every
\* subscription registered after it for the same name, and not unsubscribed
\* before its turn, is still invoked in that pass (unless a handler threw).
C5_SelfUnsubscribeKeepsLater ==
    [][ DeliveryStep =>
          \A k1, k2 \in DOMAIN eventHandlers :
              ( /\ eventHandlers[k1].name = last'.name
                /\ eventHandlers[k2].name = last'.name
                /\ regInfo[k1].seq < regInfo[k2].seq
                /\ eventHandlers[k1].handler.h.kind = "unsubSelf"
                /\ Calls(last'.trace, k1) # {}
                /\ k2 \notin UnsubscribedIn(last'.trace) \ {k1}
                /\ last'.threw = "none" )
              => /\ UnsubEvent(k1) \in {last'.trace[i] : i \in 1 .. Len(last'.trace)}
                 /\ k1 \notin DOMAIN eventHandlers'
                 /\ \E i \in Visits(last'.trace, k1), j \in Visits(last'.trace, k2) : i < j
                 /\ (hits[k2] = 0 => hits'[k2] = 1) ]_vars

\* C5 witness: in one pass a handler unsubscribed itself and the handler
\* registered after it was called.
C5_Witness ==
    \E i, j \in 1 .. Len(last.trace) :
        /\ i < j
        /\ last.trace[i].op = "unsub"
        /\ Calls(last.trace, last.trace[i].id) # {}
        /\ last.trace[j].op = "call"
        /\ last.trace[j].id # last.trace[i].id
        /\ last.trace[i].id \notin DOMAIN eventHandlers

\* C10: when a handler throws, the pass ends there: nothing is invoked after
\* it, the exception leaves the listener, no warning is made; the fault
\* removes no entry and does not touch the listener or the flag; and the
\* next message is dispatched to every handler still registered for its name.
C10_HandlerFault ==
    [][ DeliveryStep =>
          /\ \A i \in 1 .. Len(last'.trace) :
                ( /\ last'.trace[i].op = "call"
                  /\ eventHandlers[last'.trace[i].id].handler.h.kind = "throw" )
                => /\ i = Len(last'.trace)
                   /\ last'.threw = "handler"
                   /\ last'.warnings = <<>>
                   /\ DOMAIN eventHandlers'
                        = (DOMAIN eventHandlers) \ UnsubscribedIn(last'.trace)
                   /\ last'.trace[i].id \in DOMAIN eventHandlers'
                   /\ isInitialized' = isInitialized
                   /\ listener' = listener
                   /\ installs' = installs
          /\ (last.threw = "handler" /\ last'.outcome = "dispatch") =>
                \A k \in DOMAIN eventHandlers :
                    eventHandlers[k].name = last'.name =>
                        \/ Visits(last'.trace, k) # {}
                        \/ last'.threw = "handler"
                        \/ k \in UnsubscribedIn(last'.trace) ]_vars

\* C10 witness: a once handler threw in the first pass, so the handler after
\* it was skipped; the second pass for the same name called that handler.
C10_Witness ==
    \E kt, k2 \in DOMAIN eventHandlers :
        /\ eventHandlers[kt].handler.once
        /\ eventHandlers[kt].handler.h.kind = "throw"
        /\ eventHandlers[k2].name = eventHandlers[kt].name
        /\ regInfo[kt].seq < regInfo[k2].seq
        /\ hits[kt] = 1
        /\ hits[k2] = 1
        /\ delivered = 2
        /\ last.threw = "none"
        /\ Calls(last.trace, k2) # {}

\* this step is an emit handing a message to the host
EmitStep == Len(posted') = Len(posted) + 1

\* C6 (as stated): a handler registered through the first facade fires when
\* emit is called through the second facade, in the same context, for the
\* same event name.
C6_LocalEmitFires ==
    [][ \A k \in DOMAIN eventHandlers :
          ( /\ regInfo[k].via = 1
            /\ EmitStep
            /\ posted'[Len(posted')].via = 2
            /\ posted'[Len(posted')].sent.name = regInfo[k].name )
          => hits'[k] = hits[k] + 1 ]_vars

\* C6 (amended): the facades share the one registry: constructing a facade
\* leaves the registry as it is, every subscription not unsubscribed,
\* through whichever facade it was made, is invoked once when an inbound
\* message for its name is dispatched, and emit through any facade invokes
\* no handler of its own context.
C6_SharedRegistry ==
    [][ /\ facades' # facades => eventHandlers' = eventHandlers
        /\ (DeliveryStep /\ last'.outcome = "dispatch") =>
              \A k \in (DOMAIN regInfo) \ cancelled :
                  regInfo[k].name = last'.name => hits'[k] = hits[k] + 1
        /\ EmitStep => (hits' = hits /\ eventHandlers' = eventHandlers /\ last' = last)
      ]_vars

\* C6 witness: a handler registered through the first facade has been
\* invoked by an inbound message, two facades exist, and a message for the
\* handler's name emitted through the second facade is with the host.
C6_Witness ==
    \E k \in DOMAIN eventHandlers :
        /\ regInfo[k].via = 1
        /\ facades = 2
        /\ hits[k] = 1
        /\ Calls(last.trace, k) # {}
        /\ posted # <<>>
        /\ posted[1].via = 2
        /\ posted[1].sent.name = regInfo[k].name

\* C7: a message emitted in one context and carried by the host to the
\* other is dispatched there with the name and the payload given to emit,
\* from the UI to the main context and from the main context to the UI.
C7_RoundTrip ==
    /\ peerLast.kind = "delivery" =>
          /\ peerLast.outcome = "dispatch"
          /\ peerLast.name = peerLast.sent.name
          /\ peerLast.payload = peerLast.sent.payload
    /\ last.origin = "peer" =>
          /\ last.outcome = "dispatch"
          /\ last.name = last.sent.name
          /\ last.payload = last.sent.payload

\* C7 witness: in the UI context, an emitted object payload has reached the
\* main context's dispatcher and a message of the main context has reached
\* this one's.
C7_Witness ==
    /\ hasWindow
    /\ peerLast.kind = "delivery"
    /\ peerLast.api = "window.parent.postMessage"
    /\ peerLast.payload = Obj([ids |-> Arr(<<Str("1"), Str("2")>>)])
    /\ last.origin = "peer"
    /\ last.outcome = "dispatch"
    /\ last.payload = Num(1)

\* the raw inbound messages the peer's emit produces
WellFormedInbound == {FromPeer(hasWindow, n, p) : n \in Names, p \in Payloads}

\* C8: after the module has loaded, however many facades are constructed,
\* exactly one listener installation has happened; the flag never goes back
\* to false and the installed listener is never replaced; and a well-formed
\* inbound message runs each handler registered for its name exactly once.
C8_ListenerInstalledOnce ==
    [][ /\ loaded' => (installs' = 1 /\ isInitialized' /\ listener' # "none")
        /\ isInitialized => isInitialized'
        /\ listener # "none" => listener' = listener
        /\ (DeliveryStep /\ last'.raw \in WellFormedInbound) =>
              /\ last'.outcome = "dispatch"
              /\ \A k \in DOMAIN eventHandlers :
                    eventHandlers[k].name = last'.name =>
                        /\ hits'[k] = hits[k] + 1
                        /\ Cardinality(Calls(last'.trace, k)) = 1 ]_vars

\* C8 witness: two facades were constructed after the load, one listener
\* installation happened, and a message was dispatched to a handler.
C8_Witness ==
    /\ facades = 2
    /\ installs = 1
    /\ last.outcome = "dispatch"
    /\ \E k \in DOMAIN eventHandlers : Calls(last.trace, k) # {}

\* the envelope the installed listener looks at in an inbound message
EnvelopeOf(slot, raw) ==
    IF slot = "figma.ui.onmessage" THEN raw
    ELSE IF ReadThrows(raw) THEN Undef
    ELSE GetProp(raw, "pluginMessage")

\* not an ordered pair with a string first
NotAPair(env) ==
    \/ ~IsArray(env)
    \/ Len(env.items) # 2
    \/ TypeOf(env.items[1]) # "string"

\* not an array, or an empty one, or one whose first element is no string
NoName(env) ==
    \/ ~IsArray(env)
    \/ Len(env.items) = 0
    \/ TypeOf(env.items[1]) # "string"

\* C9 (as stated): an inbound message whose envelope is not an array of
\* exactly two elements with a string first, or that lacks the wrapper,
\* invokes no handler and makes no warning.
C9_NonPairsDiscarded ==
    (last.kind = "delivery" /\ NotAPair(EnvelopeOf(listener, last.raw)))
        => (last.outcome # "dispatch" /\ last.trace = <<>> /\ last.warnings = <<>>)

\* C9 (amended): an inbound message whose envelope is not an array, is an
\* empty array, has a first element that is not a string, or that lacks the
\* wrapper, invokes no handler and makes no warning; an array of any other
\* length whose first element is a string is dispatched under that name
\* with its second element as payload, undefined when it has only one.
C9_MalformedDiscarded ==
    last.kind = "delivery" =>
        LET env == EnvelopeOf(listener, last.raw)
        IN  IF NoName(env)
              THEN /\ last.outcome # "dispatch"
                   /\ last.trace = <<>>
                   /\ last.warnings = <<>>
              ELSE /\ last.outcome = "dispatch"
                   /\ last.name = env.items[1].s
                   /\ last.payload = IF Len(env.items) >= 2 THEN env.items[2] ELSE Undef

\* C9 witness: an array of three elements was dispatched to a handler with
\* its second element as payload.
C9_Witness ==
    /\ last.kind = "delivery"
    /\ IsArray(EnvelopeOf(listener, last.raw))
    /\ Len(EnvelopeOf(listener, last.raw).items) = 3
    /\ last.outcome = "dispatch"
    /\ last.payload = Num(1)
    /\ \E k \in DOMAIN eventHandlers : Calls(last.trace, k) # {}

\* C11: the unsubscribe function of a subscription removes that entry and
\* no other, and leaves every remaining entry as it was; called again it
\* changes nothing, whatever has been registered since the first call.
C11_UnsubscribeExactAndIdempotent ==
    [][ /\ \A i \in 0 .. (currentId - 1) :
              LET k == ToKey(i)
                  r == UnsubscribeFn(eventHandlers, k)
              IN  /\ DOMAIN r = (DOMAIN eventHandlers) \ {k}
                  /\ \A o \in DOMAIN r : r[o] = eventHandlers[o]
                  /\ UnsubscribeFn(r, k) = r
                  /\ k \in cancelled => r = eventHandlers
        /\ (delivered' = delivered /\ cancelled' # cancelled) =>
              /\ Cardinality(cancelled' \ cancelled) = 1
              /\ DOMAIN eventHandlers' = (DOMAIN eventHandlers) \ (cancelled' \ cancelled)
              /\ \A o \in DOMAIN eventHandlers' : eventHandlers'[o] = eventHandlers[o]
      ]_vars

\* C11 witness: a subscription was unsubscribed while an older one stays
\* registered, and another was registered after that call.
C11_Witness ==
    \E k \in cancelled, k1, k2 \in DOMAIN eventHandlers :
        /\ regInfo[k1].seq < regInfo[k].seq
        /\ regInfo[k].seq < regInfo[k2].seq
        /\ eventHandlers[k1].name = regInfo[k].name

\* C12: an emit hands one message to the host, through the primitive of
\* the side it runs on: in the main context figma.ui.postMessage with the
\* bare array [name, payload]; in the UI window.parent.postMessage with an
\* object whose only field pluginMessage holds [name, payload], and with
\* target origin "*".
C12_EmitPostsOneEnvelope ==
    [][ /\ Len(posted') <= Len(posted) + 1
        /\ EmitStep =>
              /\ SubSeq(posted', 1, Len(posted)) = posted
              /\ LET e == posted'[Len(posted')]
                      pair == <<[t |-> "string", s |-> e.sent.name], e.sent.payload>>
                 IN  IF hasWindow
                       THEN /\ e.call.api = "window.parent.postMessage"
                            /\ e.call.message.t = "object"
                            /\ DOMAIN e.call.message.fields = {"pluginMessage"}
                            /\ e.call.message.fields.pluginMessage.t = "array"
                            /\ e.call.message.fields.pluginMessage.items = pair
                            /\ e.call.targetOrigin = "*"
                       ELSE /\ e.call.api = "figma.ui.postMessage"
                            /\ e.call.message.t = "array"
                            /\ e.call.message.items = pair
      ]_vars

\* C12 witness: in the main context an emit with an array payload has
\* handed its message to figma.ui.postMessage.
C12_Witness ==
    /\ ~hasWindow
    /\ posted # <<>>
    /\ posted[1].call.api = "figma.ui.postMessage"
    /\ posted[1].sent.payload.t = "array"
    /\ Len(posted[1].call.message.items) = 2

\* C13: when a handler, while it runs in a pass, calls the unsubscribe
\* function of another subscription for the same name, that subscription is
\* not invoked in the pass if its turn had not come yet, and if it had, it
\* has been invoked exactly once in the pass; in both cases nothing is thrown.
C13_PeerUnsubscribeDuringPass ==
    [][ (DeliveryStep /\ last'.outcome = "dispatch") =>
          LET tr == last'.trace
          IN  \A i \in 2 .. Len(tr) :
                ( /\ tr[i].op = "unsub"
                  /\ tr[i - 1].op = "call"
                  /\ tr[i - 1].id # tr[i].id
                  /\ regInfo'[tr[i].id].name = last'.name )
                => LET peer == tr[i].id
                   IN  /\ last'.threw = "none"
                       /\ peer \notin DOMAIN eventHandlers'
                       /\ IF \E j \in Visits(tr, peer) : j < i
                             THEN /\ Cardinality(Visits(tr, peer)) = 1
                                  /\ hits'[peer] = hits[peer] +
                                        (IF /\ eventHandlers[peer].handler.once
                                            /\ eventHandlers[peer].handler.done
                                           THEN 0 ELSE 1)
                                  /\ Cardinality(Calls(tr, peer)) = hits'[peer] - hits[peer]
                             ELSE /\ Visits(tr, peer) = {}
                                  /\ Calls(tr, peer) = {}
                                  /\ peer \in DOMAIN hits => hits'[peer] = hits[peer]
      ]_vars

\* C13 witness: in one pass a handler was invoked, and after it a later
\* handler for the same name called the first one's unsubscribe function.
C13_Witness ==
    \E i \in 2 .. Len(last.trace) :
        LET peer == last.trace[i].id
        IN  /\ last.trace[i].op = "unsub"
            /\ last.trace[i - 1].op = "call"
            /\ last.trace[i - 1].id # peer
            /\ \E j \in Visits(last.trace, peer) : j < i
            /\ Cardinality(Calls(last.trace, peer)) = 1
            /\ peer \notin DOMAIN eventHandlers
            /\ last.threw = "none"

\* C14: in a pass in which nothing is thrown, every subscription that was
\* registered for the message's name when the pass began, and whose
\* unsubscribe function is not called during the pass, has its stored
\* handler invoked exactly once (the caller's handler of a once subscription
\* that has fired before is not run again), and no subscription for another
\* name is invoked, whatever the handlers register or unsubscribe meanwhile.
C14_PassInvokesEachOnce ==
    [][ (DeliveryStep /\ last'.outcome = "dispatch" /\ last'.threw = "none") =>
          LET tr == last'.trace
          IN  /\ \A k \in DOMAIN eventHandlers :
                    IF eventHandlers[k].name # last'.name
                      THEN /\ Visits(tr, k) = {}
                           /\ Calls(tr, k) = {}
                           /\ hits'[k] = hits[k]
                      ELSE k \notin UnsubscribedIn(tr) =>
                             /\ Cardinality(Visits(tr, k)) = 1
                             /\ hits'[k] = hits[k] +
                                   (IF /\ eventHandlers[k].handler.once
                                       /\ eventHandlers[k].handler.done
                                      THEN 0 ELSE 1)
                             /\ Cardinality(Calls(tr, k)) = hits'[k] - hits[k]
              /\ \A i \in 1 .. Len(tr) :
                    tr[i].op \in {"visit", "call"} =>
                        /\ tr[i].id \in DOMAIN eventHandlers
                        /\ eventHandlers[tr[i].id].name = last'.name
      ]_vars

\* C14 witness: in one pass a handler registered a new subscription for the
\* name, a handler called an unsubscribe function, and a subscription
\* invoked after the registration stayed registered; the new subscription
\* was not invoked.
C14_Witness ==
    \E i, j, u \in 1 .. Len(last.trace) :
        /\ i < j
        /\ last.trace[i].op = "reg"
        /\ last.trace[j].op = "call"
        /\ last.trace[u].op = "unsub"
        /\ last.trace[j].id \in DOMAIN eventHandlers
        /\ last.trace[i].id \in DOMAIN eventHandlers
        /\ hits[last.trace[i].id] = 0
        /\ last.threw = "none"

\* C15: ids are handed out once and in increasing order: currentId never
\* goes down, every key of the registry denotes a number below currentId,
\* and a registration takes the key of the current counter value, which no
\* subscription, live or unsubscribed, has had before.
C15_IdsUniqueMonotonic ==
    [][ /\ currentId' >= currentId
        /\ \A k \in DOMAIN eventHandlers' :
              /\ ToIndex(k) < currentId'
              /\ ToKey(ToIndex(k)) = k
        /\ \A i, j \in 0 .. currentId' :
              i # j => ToKey(i) # ToKey(j)
        /\ currentId' # currentId =>
              /\ currentId' = currentId + 1
              /\ ToKey(currentId) \notin (DOMAIN eventHandlers) \cup (DOMAIN regInfo)
                                              \cup cancelled
              /\ DOMAIN eventHandlers' = (DOMAIN eventHandlers) \cup {ToKey(currentId)}
              /\ \A k \in DOMAIN eventHandlers : eventHandlers'[k] = eventHandlers[k]
        /\ currentId' = currentId =>
              (DOMAIN eventHandlers') \subseteq (DOMAIN eventHandlers)
      ]_vars

\* C15 witness: a once registration made after an older subscription was
\* unsubscribed holds the newest id, above the freed one, which stays unused.
C15_Witness ==
    \E k \in cancelled, k2 \in DOMAIN eventHandlers :
        /\ eventHandlers[k2].handler.once
        /\ ToIndex(k) < ToIndex(k2)
        /\ ToIndex(k2) = currentId - 1
        /\ Cardinality(DOMAIN eventHandlers) = MaxLive
        /\ k \notin DOMAIN eventHandlers

\* the data of a window message has no field pluginMessage
LacksPluginMessage(data) ==
    data.t # "object" \/ "pluginMessage" \notin DOMAIN data.fields

\* C16: in the UI, a window message whose data lacks the field pluginMessage
\* (an object without it, a string, a number, null, undefined) is ignored:
\* the listener returns without throwing, invokes no handler and warns of
\* nothing.
C16_NoWrapperIgnored ==
    ( /\ last.kind = "delivery"
      /\ listener = "window.onmessage"
      /\ LacksPluginMessage(last.raw) )
    => /\ last.outcome = "discard"
       /\ last.threw = "none"
       /\ last.trace = <<>>
       /\ last.warnings = <<>>

\* C17: every emit frames its message for the side that was detected when
\* the inbound listener was installed, also when the global window has
\* appeared since.
C17_SideFixedAtInit ==
    [][ EmitStep =>
          posted'[Len(posted')].call.api =
              (IF listener = "window.onmessage" THEN "window.parent.postMessage"
               ELSE "figma.ui.postMessage") ]_vars

\* C18: nothing is kept for later: a handler runs only in the step that
\* delivers an inbound message dispatched under its name while it is
\* registered, once per such message and with that message's payload; a
\* registration runs no handler, whatever was dispatched, warned about or
\* discarded before it.
C18_NoBuffering ==
    [][ /\ \A k \in DOMAIN hits' :
              IF k \notin DOMAIN hits
                THEN hits'[k] = 0 /\ ~DeliveryStep
                ELSE hits'[k] # hits[k] =>
                       /\ DeliveryStep
                       /\ last'.outcome = "dispatch"
                       /\ k \in DOMAIN eventHandlers
                       /\ eventHandlers[k].name = last'.name
                       /\ hits'[k] = hits[k] + 1
                       /\ Cardinality(Calls(last'.trace, k)) = 1
                       /\ \A i \in Calls(last'.trace, k) :
                             last'.trace[i].payload = last'.payload
        /\ ~DeliveryStep => last' = last
      ]_vars

\* C18 witness: a message for "ping" was dispatched and warned about for
\* want of a handler; the only subscription ever made, registered for
\* "ping" after that, has not been invoked.
C18_Witness ==
    \E k \in DOMAIN eventHandlers :
        /\ last.outcome = "dispatch"
        /\ last.name = "ping"
        /\ last.warnings = <<"ping">>
        /\ currentId = 1
        /\ cancelled = {}
        /\ eventHandlers[k].name = "ping"
        /\ hits[k] = 0

\* C19: emit only posts: the step of an emit runs no handler of its own
\* context, also none registered for the emitted name, and leaves the
\* registry, currentId, the flag and the listener as they were; a handler
\* runs in no step but the delivery of an inbound message.
C19_EmitNoLocalEffect ==
    [][ /\ EmitStep =>
              /\ hits' = hits
              /\ eventHandlers' = eventHandlers
              /\ currentId' = currentId
              /\ isInitialized' = isInitialized
              /\ listener' = listener
              /\ installs' = installs
              /\ cancelled' = cancelled
              /\ delivered' = delivered
              /\ last' = last
        /\ (\E k \in DOMAIN hits : hits'[k] # hits[k]) => (DeliveryStep /\ ~EmitStep)
      ]_vars

\* C19 witness: with a handler registered for a name and no inbound message
\* delivered yet, an emit for that name has posted its message and the
\* handler has not run.
C19_Witness ==
    \E k \in DOMAIN eventHandlers :
        /\ delivered = 0
        /\ last.kind = "none"
        /\ posted # <<>>
        /\ posted[1].sent.name = eventHandlers[k].name
        /\ hits[k] = 0

\* C20: an entry leaves the registry only in a step in which its own
\* unsubscribe function is called: an emit and the construction of a facade
\* remove nothing, a pass removes exactly the entries whose unsubscribe
\* function a handler called in it, also when a handler throws, and a once
\* subscription that has fired stays until it is unsubscribed.
C20_OnlyUnsubscribeRemoves ==
    [][ LET removed == (DOMAIN eventHandlers) \ (DOMAIN eventHandlers')
        IN  /\ removed \subseteq (cancelled' \ cancelled)
            /\ DeliveryStep =>
                  removed = UnsubscribedIn(last'.trace) \cap (DOMAIN eventHandlers)
            /\ (EmitStep \/ facades' # facades) => removed = {}
            /\ \A k \in DOMAIN eventHandlers :
                  (eventHandlers[k].handler.once /\ k \notin cancelled')
                      => k \in DOMAIN eventHandlers'
      ]_vars

\* C20 witness: a once subscription that fired in the first pass is still
\* registered after a second pass in which a handler threw, a facade was
\* constructed and a message was emitted.
C20_Witness ==
    \E k \in DOMAIN eventHandlers :
        /\ eventHandlers[k].handler.once
        /\ eventHandlers[k].handler.done
        /\ hits[k] = 1
        /\ delivered = 2
        /\ Visits(last.trace, k) # {}
        /\ last.threw = "handler"
        /\ facades >= 1
        /\ posted # <<>>

\* C21 (as stated): a dispatch in which no caller's handler runs warns with
\* the message's name, also when the only subscription for the name is a
\* once subscription that has fired.
C21_NoRunWarns ==
    [][ ( /\ DeliveryStep
          /\ last'.outcome = "dispatch"
          /\ \A i \in 1 .. Len(last'.trace) : last'.trace[i].op # "call" )
        => last'.warnings = <<last'.name>> ]_vars

\* C21 (amended): a dispatch warns with the message's name exactly when no
\* stored handler was invoked in the pass, that is when no subscription for
\* the name was reached; a once subscription that has fired and is still
\* registered is reached: its wrapper is invoked, the caller's handler is
\* not run, and when the wrapper is reached and nothing throws no warning
\* is made.
C21_WarnsIffNothingInvoked ==
    [][ (DeliveryStep /\ last'.outcome = "dispatch") =>
          LET tr == last'.trace
          IN  /\ last'.warnings =
                    (IF \A i \in 1 .. Len(tr) : tr[i].op # "visit"
                       THEN <<last'.name>> ELSE <<>>)
              /\ (\A k \in DOMAIN eventHandlers : eventHandlers[k].name # last'.name)
                    => last'.warnings = <<last'.name>>
              /\ \A k \in DOMAIN eventHandlers :
                    ( /\ eventHandlers[k].name = last'.name
                      /\ eventHandlers[k].handler.once
                      /\ eventHandlers[k].handler.done )
                    => /\ Calls(tr, k) = {}
                       /\ hits'[k] = hits[k]
                       /\ (Visits(tr, k) # {} /\ last'.threw = "none")
                              => last'.warnings = <<>>
                       /\ (DOMAIN eventHandlers = {k}) =>
                              (Visits(tr, k) # {} /\ last'.warnings = <<>>)
      ]_vars

\* C21 witness: the only subscription is a once subscription that fired on
\* the first message; the second message for its name reached the wrapper,
\* did not run the handler, and no warning was made.
C21_Witness ==
    \E k \in DOMAIN eventHandlers :
        /\ DOMAIN eventHandlers = {k}
        /\ eventHandlers[k].handler.once
        /\ eventHandlers[k].handler.done
        /\ hits[k] = 1
        /\ delivered = 2
        /\ last.name = eventHandlers[k].name
        /\ last.trace = <<VisitEvent(k)>>
        /\ last.warnings = <<>>
        /\ last.threw = "none"

\* C22: a once subscription whose handler throws the first time it is
\* reached is used up by that: done is set before the handler runs, the
\* exception leaves the pass, and no later message runs the handler again.
C22_ThrowingOnceConsumed ==
    [][ \A k \in DOMAIN eventHandlers :
          ( /\ eventHandlers[k].handler.once
            /\ eventHandlers[k].handler.h.kind = "throw" ) =>
              /\ hits[k] >= 1 => eventHandlers[k].handler.done
              /\ (DeliveryStep /\ Calls(last'.trace, k) # {}) =>
                    /\ ~eventHandlers[k].handler.done
                    /\ hits[k] = 0
                    /\ hits'[k] = 1
                    /\ last'.threw = "handler"
                    /\ k \in DOMAIN eventHandlers'
                    /\ eventHandlers'[k].handler.done
              /\ eventHandlers[k].handler.done =>
                    /\ hits'[k] = hits[k]
                    /\ DeliveryStep => Calls(last'.trace, k) = {}
                    /\ k \in DOMAIN eventHandlers' => eventHandlers'[k].handler.done
      ]_vars

\* C22 witness: a once subscription whose handler threw on the first message
\* was reached by a second message for its name; the handler did not run and
\* nothing was thrown.
C22_Witness ==
    \E k \in DOMAIN eventHandlers :
        /\ eventHandlers[k].handler.once
        /\ eventHandlers[k].handler.h.kind = "throw"
        /\ hits[k] = 1
        /\ delivered = 2
        /\ last.name = eventHandlers[k].name
        /\ Visits(last.trace, k) # {}
        /\ Calls(last.trace, k) = {}
        /\ last.threw = "none"

\* C23: with no facade ever constructed, from the end of the module load on
\* the inbound listener is installed, once, and the flag is set; no
\* subscription is ever registered while no listener is installed; and a
\* handler registered with the bare on or once is run by the first peer
\* message for its name that reaches it.
C23_InitializedWithoutFacade ==
    [][ /\ facades' = 0
        /\ loaded' => (isInitialized' /\ listener' # "none" /\ installs' = 1)
        /\ eventHandlers' # <<>> => listener' # "none"
        /\ (DeliveryStep /\ last'.raw \in WellFormedInbound) =>
              /\ last'.outcome = "dispatch"
              /\ \A k \in DOMAIN eventHandlers :
                    ( /\ eventHandlers[k].name = last'.name
                      /\ hits[k] = 0
                      /\ Visits(last'.trace, k) # {} )
                    => /\ hits'[k] = 1
                       /\ regInfo[k].via = 0
      ]_vars

\* C23 witness: no facade exists, and the first inbound message has run a
\* handler registered with the bare functions.
C23_Witness ==
    \E k \in DOMAIN hits :
        /\ facades = 0
        /\ installs = 1
        /\ delivered = 1
        /\ regInfo[k].via = 0
        /\ hits[k] = 1
        /\ Calls(last.trace, k) # {}

\* C24: in the state-sharing example, whenever no update message is in
\* flight in either direction, the main copy and the UI copy of value are
\* equal, whatever the order of the updates made on the two sides.
C24_CopiesConverge ==
    (store.toMain = <<>> /\ store.toUI = <<>>) => store.main = store.ui

====
